---- MODULE Spec2Model ----
(***************************************************************************)
(* Pipeline orchestration core of ClipInsight AI: the job state machine    *)
(* (types/jobs), the Job/Run/RunStep lifecycle manager (lib/jobs/          *)
(* state-machine), the processVideoJob orchestrator with its retry loop,   *)
(* and the three API routes that create jobs, request reruns and PATCH a   *)
(* job's status.  One Job is modelled together with all of its Runs.       *)
(***************************************************************************)
EXTENDS Integers, Sequences, FiniteSets, TLC

VARIABLES
    job,        \* the row of table jobs: status and status_reason
    runs,       \* the rows of table job_runs of the Job, in creation order
    steps,      \* the rows of table run_steps of the latest Run, in creation order;
                \* of the rows of finished stages only step and status are kept
    exec,       \* run id -> position and locals of processVideoJob.run for that Run
    faults,     \* number of handler failures (returned or thrown) so far
    probe       \* a call of one of the pure validators: function, arguments, result

vars == <<job, runs, steps, exec, faults, probe>>

----------------------------------------------------------------------------
(* Bounds of the model *)

MaxRuns == 2      \* Runs created for the Job
MaxFaults == 3    \* handler invocations that fail or throw, over all Runs
MaxAttemptArg == 8  \* largest attempt number calculateRetryDelay is applied to

----------------------------------------------------------------------------
(* types/jobs: statuses, transition table, stage order, error codes *)

JobStatuses ==
    {"RECEIVED", "VALIDATED", "INGESTED", "TRANSCRIBED", "INSIGHTS", "DRAFTED",
     "REVIEWED", "DELIVERED", "STORED", "ANALYTICS_LOGGED",
     "FAILED_VALIDATION", "BLOCKED_ENTITLEMENT", "REQUIRES_MANUAL_REVIEW",
     "NEEDS_USER_INPUT", "FAILED"}

JOB_STATE_TRANSITIONS ==
    [s \in JobStatuses |->
       CASE s = "RECEIVED"               -> {"VALIDATED", "FAILED_VALIDATION"}
         [] s = "VALIDATED"              -> {"INGESTED", "BLOCKED_ENTITLEMENT"}
         [] s = "INGESTED"               -> {"TRANSCRIBED", "FAILED"}
         [] s = "TRANSCRIBED"            -> {"INSIGHTS", "NEEDS_USER_INPUT", "FAILED"}
         [] s = "INSIGHTS"               -> {"DRAFTED", "FAILED"}
         [] s = "DRAFTED"                -> {"REVIEWED", "FAILED"}
         [] s = "REVIEWED"               -> {"DELIVERED", "REQUIRES_MANUAL_REVIEW", "FAILED"}
         [] s = "DELIVERED"              -> {"STORED", "FAILED"}
         [] s = "STORED"                 -> {"ANALYTICS_LOGGED", "FAILED"}
         [] s = "ANALYTICS_LOGGED"       -> {}
         [] s = "FAILED_VALIDATION"      -> {}
         [] s = "BLOCKED_ENTITLEMENT"    -> {}
         [] s = "REQUIRES_MANUAL_REVIEW" -> {"DELIVERED", "FAILED"}
         [] s = "NEEDS_USER_INPUT"       -> {"TRANSCRIBED", "FAILED"}
         [] s = "FAILED"                 -> {}]

TERMINAL_STATES ==
    {"ANALYTICS_LOGGED", "FAILED_VALIDATION", "BLOCKED_ENTITLEMENT", "FAILED"}

USER_ACTION_STATES == {"REQUIRES_MANUAL_REVIEW", "NEEDS_USER_INPUT"}

PIPELINE_STEP_ORDER ==
    <<"VALIDATION", "INGESTION", "ASR", "INSIGHTS", "DRAFTING", "QA", "DELIVERY">>

PipelineSteps == {PIPELINE_STEP_ORDER[i] : i \in 1..Len(PIPELINE_STEP_ORDER)}

STEP_TO_STATUS ==
    [p \in PipelineSteps |->
       CASE p = "VALIDATION" -> "VALIDATED"
         [] p = "INGESTION"  -> "INGESTED"
         [] p = "ASR"        -> "TRANSCRIBED"
         [] p = "INSIGHTS"   -> "INSIGHTS"
         [] p = "DRAFTING"   -> "DRAFTED"
         [] p = "QA"         -> "REVIEWED"
         [] p = "DELIVERY"   -> "DELIVERED"]

ERROR_CODES ==
    {"INVALID_INPUT", "UNSUPPORTED_FORMAT", "FILE_TOO_LARGE", "DURATION_EXCEEDED",
     "INVALID_URL",
     "QUOTA_EXCEEDED", "PLAN_LIMIT_REACHED", "FEATURE_NOT_ENABLED",
     "UPLOAD_FAILED", "TRANSCRIPTION_FAILED", "GENERATION_FAILED", "RATE_LIMITED",
     "TIMEOUT", "NETWORK_ERROR",
     "API_QUOTA_EXCEEDED", "API_KEY_INVALID", "API_UNAVAILABLE",
     "LOW_QUALITY_TRANSCRIPT", "CONTENT_POLICY_VIOLATION", "HIGH_RISK_CONTENT",
     "INTERNAL_ERROR", "UNKNOWN_ERROR"}

RETRYABLE_ERRORS ==
    {"UPLOAD_FAILED", "TRANSCRIPTION_FAILED", "GENERATION_FAILED", "RATE_LIMITED",
     "TIMEOUT", "NETWORK_ERROR"}

max_attempts == 3

base_delay_ms == 1000
max_delay_ms == 30000
exponential_base == 2

\* Math.pow(b, e) for a whole exponent e >= 0
RECURSIVE Pow(_, _)
Pow(b, e) == IF e = 0 THEN 1 ELSE b * Pow(b, e - 1)

\* Math.min
Min(a, b) == IF a <= b THEN a ELSE b

\* calculateRetryDelay without the cap at max_delay_ms
calculateRetryDelay_NoCap(attempt) ==
    base_delay_ms * Pow(exponential_base, attempt - 1)

\* calculateRetryDelay(attempt) with DEFAULT_RETRY_CONFIG
calculateRetryDelay(attempt) ==
    Min(base_delay_ms * Pow(exponential_base, attempt - 1), max_delay_ms)

isRetryableError(errorCode) == errorCode \in RETRYABLE_ERRORS

\* canTransitionTo that also lets a status move to itself
canTransitionTo_AllowsSelf(currentStatus, targetStatus) ==
    IF currentStatus \in DOMAIN JOB_STATE_TRANSITIONS
      THEN targetStatus \in JOB_STATE_TRANSITIONS[currentStatus] \cup {currentStatus}
      ELSE FALSE

canTransitionTo(currentStatus, targetStatus) ==
    IF currentStatus \in DOMAIN JOB_STATE_TRANSITIONS
      THEN targetStatus \in JOB_STATE_TRANSITIONS[currentStatus]
      ELSE FALSE

\* isTerminalState that also counts the statuses waiting for the user
isTerminalState_WithUserAction(status) ==
    status \in TERMINAL_STATES \cup USER_ACTION_STATES

isTerminalState(status) == status \in TERMINAL_STATES

requiresUserAction(status) == status \in USER_ACTION_STATES

----------------------------------------------------------------------------
(* Values of the rows and of the orchestrator's locals *)

Undefined == "undefined"   \* an argument or field that is not given (JavaScript undefined)
Null == "null"             \* a column that holds NULL

NoJob == [status |-> "NO_JOB", status_reason |-> Null]

\* Input sets of the environment
HandlerCodes ==
    {"INVALID_INPUT", "QUOTA_EXCEEDED", "HIGH_RISK_CONTENT", "LOW_QUALITY_TRANSCRIPT",
     "NETWORK_ERROR", Undefined}
HandlerMessages == {"handler_message"}
\* metrics.tokens_used of a successful result: every success reports one token
\* (0 stands for a result without the metric)
TokensUsed == {1}
ThrownMessages == {"handler_exception"}
PatchStatuses == {Undefined, "DELIVERED", "FAILED"}
PatchReasons == {Undefined, "user_reason"}
SourceTypes == {"UPLOAD", "YOUTUBE_URL", "OTHER_URL", "BAD_SOURCE_TYPE"}

RunIds == 1..MaxRuns

NoResult == [success |-> FALSE, invoked |-> FALSE, error_code |-> Undefined,
             error_message |-> Undefined, tokens_used |-> 0]

\* The locals of one execution of run(). calls and outcomes record the handler
\* invocations of the stage in progress: how many there were and how each ended
\* ("success", "retryable", "non_retryable" for a returned result, "thrown").
IdleExec == [pc |-> "idle", step |-> 1, attempt |-> 1, calls |-> 0, outcomes |-> <<>>,
             result |-> NoResult, errorMessage |-> Undefined, total_tokens |-> 0]

NoProbe == [fn |-> "none", args |-> <<>>, result |-> FALSE]

InvalidTransitionMessage == "Invalid state transition"

----------------------------------------------------------------------------
(* lib/jobs/state-machine: the lifecycle manager *)

\* createJob: the inserted row
createJob == [status |-> "RECEIVED", status_reason |-> Null]

\* updateJobStatus that writes the row before it validates the transition
updateJobStatus_WritesBeforeCheck(j, newStatus, statusReason) ==
    [job |-> [status |-> newStatus,
              status_reason |-> IF statusReason = Undefined
                                  THEN j.status_reason ELSE statusReason],
     threw |-> ~canTransitionTo(j.status, newStatus)]

\* updateJobStatus on the Job row j: the row afterwards and whether the call threw.
\* The update object carries status_reason: statusReason; an undefined value is
\* dropped when the object is serialised, so the column keeps its value.
updateJobStatus(j, newStatus, statusReason) ==
    IF ~canTransitionTo(j.status, newStatus)
      THEN [job |-> j, threw |-> TRUE]
      ELSE [job |-> [status |-> newStatus,
                     status_reason |-> IF statusReason = Undefined
                                         THEN j.status_reason ELSE statusReason],
            threw |-> FALSE]

\* createJobRun: the guard on the Job's status (TRUE: the call throws)
createJobRunRejects(status) == isTerminalState(status)

\* createJobRun that leaves run_number to the column's default (1)
createJobRun_DefaultNumber(existing, trigger) ==
    [run_number |-> 1, trigger |-> trigger, status |-> "PENDING",
     started_at |-> FALSE, finished_at |-> FALSE, error_message |-> Null,
     tokens_in |-> 0, tokens_out |-> 0]

\* createJobRun: the inserted row, given the rows that exist
createJobRun(existing, trigger) ==
    [run_number |-> Len(existing) + 1, trigger |-> trigger, status |-> "PENDING",
     started_at |-> FALSE, finished_at |-> FALSE, error_message |-> Null,
     tokens_in |-> 0, tokens_out |-> 0]

\* updateRunStatus on the run row
updateRunStatus(run, status, errorMessage) ==
    [run EXCEPT
       !.status = status,
       !.started_at = IF status = "RUNNING" /\ errorMessage = Undefined
                        THEN TRUE ELSE @,
       !.finished_at = IF status \in {"SUCCEEDED", "FAILED", "CANCELLED"}
                         THEN TRUE ELSE @,
       !.error_message = IF errorMessage # Undefined THEN errorMessage ELSE @]

\* updateRunMetrics on the run row (no route and no step of run() calls it)
updateRunMetrics(run, tokensIn, tokensOut) ==
    [run EXCEPT !.tokens_in = tokensIn, !.tokens_out = tokensOut]

\* createRunStep: the inserted row
createRunStep(step, status, attempt) ==
    [step |-> step, status |-> status, attempt |-> attempt,
     error_code |-> Null, error_detail |-> Null, finished_at |-> FALSE]

\* updateRunStep: the columns named by updates are overwritten (undefined values
\* are dropped from the update object)
updateRunStep(row, updates) ==
    [f \in DOMAIN row |->
       IF f \in DOMAIN updates
         THEN IF f \in {"error_code", "error_detail"} /\ updates[f] = Undefined
                THEN row[f] ELSE updates[f]
         ELSE row[f]]

\* canRerun without the exclusion of BLOCKED_ENTITLEMENT
canRerun_AllowsBlocked(j) ==
    \/ isTerminalState(j.status)
    \/ j.status = "NEEDS_USER_INPUT"
    \/ j.status = "REQUIRES_MANUAL_REVIEW"

\* canRerun: whether a rerun of the Job may be requested
canRerun(j) ==
    \/ isTerminalState(j.status) /\ j.status # "BLOCKED_ENTITLEMENT"
    \/ j.status = "NEEDS_USER_INPUT"
    \/ j.status = "REQUIRES_MANUAL_REVIEW"

----------------------------------------------------------------------------
(* Initial state: no Job has been submitted *)

Init ==
    /\ job = NoJob
    /\ runs = <<>>
    /\ steps = <<>>
    /\ exec = [r \in RunIds |-> IdleExec]
    /\ faults = 0
    /\ probe = NoProbe

----------------------------------------------------------------------------
(* API routes *)

\* POST /api/jobs: validate the body, create the Job and its first Run, send the
\* video.process event (a failure to send is logged and ignored)
PostJobs ==
    /\ job = NoJob
    /\ \E source_type \in SourceTypes, source_url \in BOOLEAN,
          source_filename \in BOOLEAN, sent \in BOOLEAN :
         IF \/ source_type \notin {"UPLOAD", "YOUTUBE_URL", "OTHER_URL"}
            \/ source_type = "YOUTUBE_URL" /\ ~source_url
            \/ source_type = "UPLOAD" /\ ~source_filename
           THEN UNCHANGED <<job, runs, exec>>
           ELSE /\ job' = createJob
                /\ IF createJobRunRejects(createJob.status)
                     THEN UNCHANGED <<runs, exec>>
                     ELSE /\ runs' = Append(runs, createJobRun(runs, "USER_CREATE"))
                          /\ exec' = [exec EXCEPT ![Len(runs) + 1].pc =
                                        IF sent THEN "queued" ELSE "unsent"]
    /\ UNCHANGED <<steps, faults, probe>>

\* POST /api/jobs/[id]/runs: the rerun request
PostRuns ==
    /\ job # NoJob
    /\ Len(runs) < MaxRuns
    /\ \E sent \in BOOLEAN :
         IF ~canRerun(job)
           THEN UNCHANGED <<job, runs, exec>>
           ELSE /\ job' = [status |-> "RECEIVED", status_reason |-> Null]
                /\ IF createJobRunRejects(job'.status)
                     THEN UNCHANGED <<runs, exec>>
                     ELSE /\ runs' = Append(runs, createJobRun(runs, "REGENERATE"))
                          /\ exec' = [exec EXCEPT ![Len(runs) + 1].pc =
                                        IF sent THEN "queued" ELSE "unsent"]
    /\ steps' = IF Len(runs') > Len(runs) THEN <<>> ELSE steps
    /\ UNCHANGED <<faults, probe>>

\* PATCH /api/jobs/[id]: a user may only ask for DELIVERED
PatchJob ==
    /\ job # NoJob
    /\ \E status \in PatchStatuses, status_reason \in PatchReasons :
         IF status = Undefined \/ status \notin {"DELIVERED"}
           THEN UNCHANGED job
           ELSE /\ job' = updateJobStatus(job, status, status_reason).job
    /\ UNCHANGED <<runs, steps, exec, faults, probe>>

----------------------------------------------------------------------------
(* trigger/jobs/process-video: processVideoJob.run, one process per Run.     *)
(* Every awaited call that reads or writes a row is one step.                *)

\* run() that is started again for the same Run once it has ended
Ended_RunsAgain(how) == [IdleExec EXCEPT !.pc = "queued"]

\* run() has ended, by return or by an exception: its locals are gone
Ended(how) == [IdleExec EXCEPT !.pc = how]

\* run() has left the stage loop and is about to mark the Run: of its locals only
\* the error message (result.error_message or errorMessage) is still used, and on
\* the success path the context's totals, which run() returns
Finishing(pc, message) == [IdleExec EXCEPT !.pc = pc, !.errorMessage = message]

CurrentStep(r) == PIPELINE_STEP_ORDER[exec[r].step]

\* the row of run_steps created for the stage in progress (stepRecord)
StepRecord == Len(steps)

\* errorCode = result.error_code || ERROR_CODES.UNKNOWN_ERROR
ErrorCodeOf(result) ==
    IF result.error_code = Undefined THEN "UNKNOWN_ERROR" ELSE result.error_code

\* the failure status computed from the failing stage and the error code
FailureStatus(step, errorCode) ==
    IF step = "VALIDATION" THEN "FAILED_VALIDATION"
    ELSE IF errorCode = "QUOTA_EXCEEDED" THEN "BLOCKED_ENTITLEMENT"
    ELSE IF errorCode = "HIGH_RISK_CONTENT" THEN "REQUIRES_MANUAL_REVIEW"
    ELSE IF errorCode = "LOW_QUALITY_TRANSCRIPT" THEN "NEEDS_USER_INPUT"
    ELSE "FAILED"

\* the retry condition of the failure branch
ShouldRetry(errorCode, attempt) ==
    isRetryableError(errorCode) /\ attempt < max_attempts

\* the catch branch's retry condition with <= in place of <
ShouldRetryAfterThrow_OffByOne(attempt) == attempt <= max_attempts

\* the retry condition of the catch branch
ShouldRetryAfterThrow(attempt) == attempt < max_attempts

\* the event is picked up: updateRunStatus(job_run_id, 'RUNNING'), first stage next
StartRun(r) ==
    /\ exec[r].pc = "queued"
    /\ runs' = [runs EXCEPT ![r] = updateRunStatus(@, "RUNNING", Undefined)]
    /\ exec' = [exec EXCEPT ![r].pc = "createRunStep", ![r].step = 1]
    /\ UNCHANGED <<job, steps, faults, probe>>

\* The row of a stage the loop has left is never read or written again
\* (updateRunStep is only called with the id of the current stepRecord): its
\* attempt and error columns are dropped from the state.
FinishedStages(rows) ==
    [i \in DOMAIN rows |-> [step |-> rows[i].step, status |-> rows[i].status]]

\* top of the for loop: createRunStep, attempt = 1
CreateStepRecord(r) ==
    /\ exec[r].pc = "createRunStep"
    /\ steps' = Append(FinishedStages(steps), createRunStep(CurrentStep(r), "STARTED", 1))
    /\ exec' = [exec EXCEPT ![r].pc = "stepHandler", ![r].attempt = 1,
                            ![r].calls = 0, ![r].outcomes = <<>>,
                            ![r].result = NoResult,
                            ![r].errorMessage = Undefined]
    /\ UNCHANGED <<job, runs, faults, probe>>

\* result = await stepHandler(context): the handler succeeds, returns a failure
\* or throws
InvokeHandler(r) ==
    /\ exec[r].pc = "stepHandler"
    /\ \/ /\ \E tokens \in TokensUsed :
               exec' = [exec EXCEPT ![r].pc = "stepSucceeded",
                                    ![r].calls = @ + 1,
                                    ![r].outcomes = Append(@, "success"),
                                    ![r].result = [success |-> TRUE, invoked |-> TRUE,
                                                   error_code |-> Undefined,
                                                   error_message |-> Undefined,
                                                   tokens_used |-> tokens]]
          /\ UNCHANGED faults
       \/ /\ faults < MaxFaults
          /\ faults' = faults + 1
          /\ \E code \in HandlerCodes, msg \in HandlerMessages :
               exec' = [exec EXCEPT ![r].pc = "stepFailed",
                                    ![r].calls = @ + 1,
                                    ![r].outcomes =
                                        Append(@, IF isRetryableError(
                                                       ErrorCodeOf([error_code |-> code]))
                                                    THEN "retryable" ELSE "non_retryable"),
                                    ![r].result = [success |-> FALSE, invoked |-> TRUE,
                                                   error_code |-> code,
                                                   error_message |-> msg,
                                                   tokens_used |-> 0]]
       \/ /\ faults < MaxFaults
          /\ faults' = faults + 1
          /\ \E msg \in ThrownMessages :
               exec' = [exec EXCEPT ![r].pc = "catch",
                                    ![r].calls = @ + 1,
                                    ![r].outcomes = Append(@, "thrown"),
                                    ![r].errorMessage = msg]
    /\ UNCHANGED <<job, runs, steps, probe>>

\* result.success: updateRunStep(SUCCEEDED)
MarkStepSucceeded(r) ==
    /\ exec[r].pc = "stepSucceeded"
    /\ steps' = [steps EXCEPT ![StepRecord] =
                   updateRunStep(@, [status |-> "SUCCEEDED", finished_at |-> TRUE])]
    /\ exec' = [exec EXCEPT ![r].pc = "updateJobStatus"]
    /\ UNCHANGED <<job, runs, faults, probe>>

\* context.total_tokens += result.metrics.tokens_used, when the result has it
AccumulateTokens(total, result) ==
    IF result.tokens_used = 0 THEN total ELSE total + result.tokens_used

\* updateJobStatus(job_id, targetStatus), then the totals are accumulated and the
\* retry loop is left for the next stage; an error thrown by the update is caught
\* by the loop's catch
AdvanceJobStatus(r) ==
    /\ exec[r].pc = "updateJobStatus"
    /\ LET res == updateJobStatus(job, STEP_TO_STATUS[CurrentStep(r)], Undefined) IN
         /\ job' = res.job
         /\ IF res.threw
              THEN exec' = [exec EXCEPT ![r].pc = "catch",
                                        ![r].errorMessage = InvalidTransitionMessage]
              ELSE IF exec[r].step < Len(PIPELINE_STEP_ORDER)
                     THEN exec' = [exec EXCEPT ![r].pc = "createRunStep",
                                               ![r].step = @ + 1,
                                               ![r].total_tokens =
                                                   AccumulateTokens(@, exec[r].result)]
                     ELSE exec' = [exec EXCEPT ![r].pc = "stored",
                                               ![r].total_tokens =
                                                   AccumulateTokens(@, exec[r].result)]
    /\ UNCHANGED <<runs, steps, faults, probe>>

\* !result.success: either updateRunStep(RETRYING, attempt + 1) and wait, or
\* updateRunStep(FAILED)
HandleStepFailure(r) ==
    /\ exec[r].pc = "stepFailed"
    /\ LET errorCode == ErrorCodeOf(exec[r].result) IN
         IF ShouldRetry(errorCode, exec[r].attempt)
           THEN /\ steps' = [steps EXCEPT ![StepRecord] =
                               updateRunStep(@, [status |-> "RETRYING",
                                                 attempt |-> exec[r].attempt + 1,
                                                 error_code |-> errorCode,
                                                 error_detail |-> exec[r].result.error_message])]
                /\ exec' = [exec EXCEPT ![r].pc = "wait"]
           ELSE /\ steps' = [steps EXCEPT ![StepRecord] =
                               updateRunStep(@, [status |-> "FAILED",
                                                 finished_at |-> TRUE,
                                                 error_code |-> errorCode,
                                                 error_detail |-> exec[r].result.error_message])]
                /\ exec' = [exec EXCEPT ![r].pc = "failJob"]
    /\ UNCHANGED <<job, runs, faults, probe>>

\* io.wait(retry-step-attempt, delay); attempt++; back to the top of the while loop
WaitRetry(r) ==
    /\ exec[r].pc = "wait"
    /\ exec' = [exec EXCEPT ![r].attempt = @ + 1,
                            ![r].pc = IF exec[r].attempt + 1 <= max_attempts
                                        THEN "stepHandler" ELSE "loopExit"]
    /\ UNCHANGED <<job, runs, steps, faults, probe>>

\* updateJobStatus(job_id, failureStatus, result.error_message); an error thrown
\* by the update is caught by the loop's catch
FailJob(r) ==
    /\ exec[r].pc = "failJob"
    /\ LET failureStatus == FailureStatus(CurrentStep(r), ErrorCodeOf(exec[r].result))
           res == updateJobStatus(job, failureStatus, exec[r].result.error_message)
       IN /\ job' = res.job
          /\ IF res.threw
               THEN exec' = [exec EXCEPT ![r].pc = "catch",
                                         ![r].errorMessage = InvalidTransitionMessage]
               ELSE exec' = [exec EXCEPT ![r] =
                               Finishing("failRun", exec[r].result.error_message)]
    /\ UNCHANGED <<runs, steps, faults, probe>>

\* updateRunStatus(job_run_id, 'FAILED', result.error_message); return
FailRun(r) ==
    /\ exec[r].pc = "failRun"
    /\ runs' = [runs EXCEPT ![r] = updateRunStatus(@, "FAILED", exec[r].errorMessage)]
    /\ exec' = [exec EXCEPT ![r] = Ended("returned")]
    /\ UNCHANGED <<job, steps, faults, probe>>

\* catch (error): either wait and retry, or updateRunStep(FAILED, INTERNAL_ERROR)
CatchError(r) ==
    /\ exec[r].pc = "catch"
    /\ IF ShouldRetryAfterThrow(exec[r].attempt)
         THEN /\ exec' = [exec EXCEPT ![r].pc = "waitError"]
              /\ UNCHANGED steps
         ELSE /\ steps' = [steps EXCEPT ![StepRecord] =
                             updateRunStep(@, [status |-> "FAILED",
                                               finished_at |-> TRUE,
                                               error_code |-> "INTERNAL_ERROR",
                                               error_detail |-> exec[r].errorMessage])]
              /\ exec' = [exec EXCEPT ![r].pc = "catchFailJob"]
    /\ UNCHANGED <<job, runs, faults, probe>>

\* io.wait(retry-error-step-attempt, delay); attempt++; back to the top of the loop
WaitAfterError(r) ==
    /\ exec[r].pc = "waitError"
    /\ exec' = [exec EXCEPT ![r].attempt = @ + 1,
                            ![r].pc = IF exec[r].attempt + 1 <= max_attempts
                                        THEN "stepHandler" ELSE "loopExit"]
    /\ UNCHANGED <<job, runs, steps, faults, probe>>

\* in the catch block: updateJobStatus(job_id, 'FAILED', errorMessage); an error
\* thrown here leaves run() by an exception
CatchFailJob(r) ==
    /\ exec[r].pc = "catchFailJob"
    /\ LET res == updateJobStatus(job, "FAILED", exec[r].errorMessage) IN
         /\ job' = res.job
         /\ exec' = [exec EXCEPT ![r] = IF res.threw THEN Ended("thrown")
                                          ELSE Finishing("catchFailRun", @.errorMessage)]
    /\ UNCHANGED <<runs, steps, faults, probe>>

\* in the catch block: updateRunStatus(job_run_id, 'FAILED', errorMessage); return
CatchFailRun(r) ==
    /\ exec[r].pc = "catchFailRun"
    /\ runs' = [runs EXCEPT ![r] = updateRunStatus(@, "FAILED", exec[r].errorMessage)]
    /\ exec' = [exec EXCEPT ![r] = Ended("returned")]
    /\ UNCHANGED <<job, steps, faults, probe>>

\* after the for loop: updateJobStatus(job_id, 'STORED')
MarkStored(r) ==
    /\ exec[r].pc = "stored"
    /\ LET res == updateJobStatus(job, "STORED", Undefined) IN
         /\ job' = res.job
         /\ exec' = [exec EXCEPT ![r] = IF res.threw THEN Ended("thrown")
                                          ELSE [@ EXCEPT !.pc = "analyticsLogged"]]
    /\ UNCHANGED <<runs, steps, faults, probe>>

\* updateJobStatus(job_id, 'ANALYTICS_LOGGED')
MarkAnalyticsLogged(r) ==
    /\ exec[r].pc = "analyticsLogged"
    /\ LET res == updateJobStatus(job, "ANALYTICS_LOGGED", Undefined) IN
         /\ job' = res.job
         /\ exec' = [exec EXCEPT ![r] = IF res.threw THEN Ended("thrown")
                                          ELSE [Finishing("succeedRun", Undefined)
                                                  EXCEPT !.total_tokens = exec[r].total_tokens]]
    /\ UNCHANGED <<runs, steps, faults, probe>>

\* updateRunStatus(job_run_id, 'SUCCEEDED'); return
SucceedRun(r) ==
    /\ exec[r].pc = "succeedRun"
    /\ runs' = [runs EXCEPT ![r] = updateRunStatus(@, "SUCCEEDED", Undefined)]
    /\ exec' = [exec EXCEPT ![r] = Ended("returned")]
    /\ UNCHANGED <<job, steps, faults, probe>>

----------------------------------------------------------------------------

Next ==
    \/ PostJobs
    \/ PostRuns
    \/ PatchJob
    \/ \E r \in RunIds :
         \/ StartRun(r)
         \/ CreateStepRecord(r)
         \/ InvokeHandler(r)
         \/ MarkStepSucceeded(r)
         \/ AdvanceJobStatus(r)
         \/ HandleStepFailure(r)
         \/ WaitRetry(r)
         \/ FailJob(r)
         \/ FailRun(r)
         \/ CatchError(r)
         \/ WaitAfterError(r)
         \/ CatchFailJob(r)
         \/ CatchFailRun(r)
         \/ MarkStored(r)
         \/ MarkAnalyticsLogged(r)
         \/ SucceedRun(r)

Spec == Init /\ [][Next]_vars

----------------------------------------------------------------------------
(* The validators and updateJobStatus applied to arbitrary arguments *)

StatusReasons == {Null, "handler_message", "user_reason"}
GivenReasons == {Undefined, "handler_message", "user_reason"}

ProbeCanTransitionTo ==
    /\ probe.fn = "none"
    /\ \E s \in JobStatuses, t \in JobStatuses :
         probe' = [fn |-> "canTransitionTo", args |-> <<s, t>>,
                   result |-> canTransitionTo(s, t)]
    /\ UNCHANGED <<job, runs, steps, exec, faults>>

ProbeUpdateJobStatus ==
    /\ probe.fn = "none"
    /\ \E s \in JobStatuses, before \in StatusReasons,
          t \in JobStatuses, reason \in GivenReasons :
         LET j == [status |-> s, status_reason |-> before] IN
           probe' = [fn |-> "updateJobStatus", args |-> <<j, t, reason>>,
                     result |-> updateJobStatus(j, t, reason)]
    /\ UNCHANGED <<job, runs, steps, exec, faults>>

ProbeCanRerun ==
    /\ probe.fn = "none"
    /\ \E s \in JobStatuses, reason \in StatusReasons :
         LET j == [status |-> s, status_reason |-> reason] IN
           probe' = [fn |-> "canRerun", args |-> <<j>>, result |-> canRerun(j)]
    /\ UNCHANGED <<job, runs, steps, exec, faults>>

ProbeCalculateRetryDelay ==
    /\ probe.fn = "none"
    /\ \E attempt \in 1..MaxAttemptArg :
         probe' = [fn |-> "calculateRetryDelay", args |-> <<attempt>>,
                   result |-> calculateRetryDelay(attempt)]
    /\ UNCHANGED <<job, runs, steps, exec, faults>>

ProbeIsTerminalState ==
    /\ probe.fn = "none"
    /\ \E s \in JobStatuses :
         probe' = [fn |-> "isTerminalState", args |-> <<s>>,
                   result |-> isTerminalState(s)]
    /\ UNCHANGED <<job, runs, steps, exec, faults>>

NextFn ==
    \/ ProbeCanTransitionTo
    \/ ProbeUpdateJobStatus
    \/ ProbeCanRerun
    \/ ProbeCalculateRetryDelay
    \/ ProbeIsTerminalState

SpecFn == Init /\ [][NextFn]_vars

----------------------------------------------------------------------------
(* Properties *)

CreatedRuns == 1..Len(runs)

\* The transition table as the specification lists it (section 4.1)
SpecTargets(s) ==
    CASE s = "RECEIVED"               -> {"VALIDATED", "FAILED_VALIDATION"}
      [] s = "VALIDATED"              -> {"INGESTED", "BLOCKED_ENTITLEMENT"}
      [] s = "INGESTED"               -> {"TRANSCRIBED", "FAILED"}
      [] s = "TRANSCRIBED"            -> {"INSIGHTS", "NEEDS_USER_INPUT", "FAILED"}
      [] s = "INSIGHTS"               -> {"DRAFTED", "FAILED"}
      [] s = "DRAFTED"                -> {"REVIEWED", "FAILED"}
      [] s = "REVIEWED"               -> {"DELIVERED", "REQUIRES_MANUAL_REVIEW", "FAILED"}
      [] s = "DELIVERED"              -> {"STORED", "FAILED"}
      [] s = "STORED"                 -> {"ANALYTICS_LOGGED", "FAILED"}
      [] s = "REQUIRES_MANUAL_REVIEW" -> {"DELIVERED", "FAILED"}
      [] s = "NEEDS_USER_INPUT"       -> {"TRANSCRIBED", "FAILED"}
      [] OTHER                        -> {}

\* The failure status the specification prescribes (section 4.5)
SpecFailureStatus(stage, code) ==
    CASE stage = "VALIDATION"            -> "FAILED_VALIDATION"
      [] stage # "VALIDATION" /\ code = "QUOTA_EXCEEDED" -> "BLOCKED_ENTITLEMENT"
      [] stage # "VALIDATION" /\ code = "HIGH_RISK_CONTENT" -> "REQUIRES_MANUAL_REVIEW"
      [] stage # "VALIDATION" /\ code = "LOW_QUALITY_TRANSCRIPT" -> "NEEDS_USER_INPUT"
      [] OTHER                           -> "FAILED"

\* the handler's latest result is a returned failure with a non-retryable code
NonRetryableFailure(r) ==
    /\ exec[r].result.invoked
    /\ ~exec[r].result.success
    /\ ~isRetryableError(ErrorCodeOf(exec[r].result))

\* the handler's latest result is a returned failure with a retryable code
RetryableFailure(r) ==
    /\ exec[r].result.invoked
    /\ ~exec[r].result.success
    /\ isRetryableError(ErrorCodeOf(exec[r].result))

\* The rows of run_steps are written by the execution of the latest Run only,
\* which is why the rows of earlier Runs need not be kept.
StepWriterIsLatestRun ==
    \A r \in CreatedRuns :
      exec[r].pc \in {"createRunStep", "stepHandler", "stepSucceeded", "updateJobStatus",
                      "stepFailed", "wait", "failJob", "catch", "waitError",
                      "catchFailJob"}
        => r = Len(runs)

\* C1: every execution of run() ends by returning, with its Run SUCCEEDED or
\* FAILED; it never ends by an exception and never leaves the Run RUNNING.
C1_RunEndsWithFinalStatus ==
    \A r \in CreatedRuns :
      exec[r].pc \in {"returned", "thrown"}
        => exec[r].pc = "returned" /\ runs[r].status \in {"SUCCEEDED", "FAILED"}

\* C2: when a stage fails definitively with stage S and code C, the status update
\* the orchestrator then makes leaves the Job in the status prescribed for (S, C).
C2_FailureStatusApplied ==
    [][\A r \in RunIds :
         exec[r].pc = "failJob" /\ exec'[r].pc # "failJob"
           => job'.status = SpecFailureStatus(CurrentStep(r), ErrorCodeOf(exec[r].result))]_vars

\* C3: every change of the Job's status from s to t is a pair the transition
\* table permits.
C3_EveryStatusChangeIsPermitted ==
    [][job # NoJob /\ job'.status # job.status
         => canTransitionTo(job.status, job'.status)]_vars

\* C4: updateJobStatus with a target that is not permitted from the Job's status
\* throws and leaves status and reason unchanged; with a permitted target it sets
\* the status to the target and the reason to the reason that was given.
C4_UpdateJobStatusContract ==
    probe.fn = "updateJobStatus" =>
      LET j == probe.args[1]
          t == probe.args[2]
          reason == probe.args[3]
      IN IF t \in JOB_STATE_TRANSITIONS[j.status]
           THEN /\ ~probe.result.threw
                /\ probe.result.job.status = t
                /\ reason # Undefined => probe.result.job.status_reason = reason
           ELSE /\ probe.result.threw
                /\ probe.result.job = j

\* C4 witness: a rejected update of a Job that carries a reason, and a reason given
C4_Witness ==
    /\ probe.fn = "updateJobStatus"
    /\ probe.args = <<[status |-> "FAILED", status_reason |-> "handler_message"],
                      "DELIVERED", "user_reason">>
    /\ probe.result.threw

\* C5: canTransitionTo(s, t) is true exactly when the specification's table lists
\* t as a target of s, for every ordered pair of the 15 statuses.
C5_CanTransitionToMatchesTable ==
    probe.fn = "canTransitionTo" =>
      probe.result = (probe.args[2] \in SpecTargets(probe.args[1]))

\* C5 witness: a permitted pair and its answer
C5_Witness ==
    /\ probe.fn = "canTransitionTo"
    /\ probe.args = <<"REVIEWED", "REQUIRES_MANUAL_REVIEW">>
    /\ probe.result = TRUE

\* C6: the Job has at most one active Run (PENDING or RUNNING).
C6_AtMostOneActiveRun ==
    Cardinality({r \in CreatedRuns : runs[r].status \in {"PENDING", "RUNNING"}}) <= 1

\* C7: createRun is rejected exactly when the Job's status is neither terminal nor
\* a user-action status and the Job is not brand new.
C7_CreateRunRejectedIffActive ==
    job # NoJob =>
      (createJobRunRejects(job.status)
         <=> ~(isTerminalState(job.status) \/ requiresUserAction(job.status)
               \/ Len(runs) = 0))

\* C8: when stage QA fails with HIGH_RISK_CONTENT the Job becomes
\* REQUIRES_MANUAL_REVIEW and the execution goes on to mark the Run FAILED.
C8_HighRiskGoesToManualReview ==
    [][\A r \in RunIds :
         /\ exec[r].pc = "failJob"
         /\ CurrentStep(r) = "QA"
         /\ exec[r].result.error_code = "HIGH_RISK_CONTENT"
         /\ exec'[r].pc # "failJob"
         => job'.status = "REQUIRES_MANUAL_REVIEW" /\ exec'[r].pc = "failRun"]_vars

\* C9: after a handler has returned a failure with a non-retryable code there is
\* no wait and no further invocation of that handler in the stage.
C9_NonRetryableNotReinvoked ==
    \A r \in RunIds :
      NonRetryableFailure(r) => exec[r].pc \notin {"wait", "waitError", "stepHandler"}

C11_StagesInOrderAndStopAfterFailure ==
    \A r \in RunIds :
      /\ exec[r].pc = "stepHandler"
           => /\ Len(steps) = exec[r].step
              /\ \A i \in 1..Len(steps) : steps[i].step = PIPELINE_STEP_ORDER[i]
              /\ \A i \in 1..(Len(steps) - 1) : steps[i].status = "SUCCEEDED"
      /\ exec[r].pc = "createRunStep" /\ exec[r].step > 1
           => \A i \in 1..Len(exec[r].outcomes) : exec[r].outcomes[i] # "non_retryable"

\* the ten statuses of the success path, in order
SuccessOrder ==
    <<"RECEIVED", "VALIDATED", "INGESTED", "TRANSCRIBED", "INSIGHTS", "DRAFTED",
      "REVIEWED", "DELIVERED", "STORED", "ANALYTICS_LOGGED">>

\* C12: as long as every handler invocation has succeeded (faults = 0), the Job's
\* status only moves from one status of the success path to the next one (a rerun
\* of a finished Job starts the path again at RECEIVED), and an execution of
\* run() that has ended has returned with its Run SUCCEEDED and the Job past
\* STORED.
C12_SuccessPath ==
    /\ [][job # NoJob /\ faults' = 0 /\ job'.status # job.status
            => \/ \E i \in 1..(Len(SuccessOrder) - 1) :
                    job.status = SuccessOrder[i] /\ job'.status = SuccessOrder[i + 1]
               \/ job.status = "ANALYTICS_LOGGED" /\ job'.status = "RECEIVED"]_vars
    /\ [](faults = 0 =>
            \A r \in CreatedRuns :
              exec[r].pc \in {"returned", "thrown"}
                => exec[r].pc = "returned" /\ runs[r].status = "SUCCEEDED")

\* the handler of the stage in progress has returned retryable failures only (at
\* least one) and then a success, and the RunStep has been marked for that success
RetriedThenSucceeded(r) ==
    /\ exec[r].pc = "updateJobStatus"
    /\ Len(exec[r].outcomes) >= 2
    /\ \A i \in 1..Len(exec[r].outcomes) :
         exec[r].outcomes[i] = IF i = Len(exec[r].outcomes) THEN "success" ELSE "retryable"

\* C13: when a handler has failed k times with a retryable code and then succeeds,
\* the stage has one RunStep, SUCCEEDED with attempt k + 1, and the status update
\* that follows sets the Job to the stage's target status and the loop goes on to
\* the next stage (or leaves the loop after DELIVERY).
C13_RetryThenSucceed ==
    /\ [](\A r \in RunIds :
            RetriedThenSucceeded(r)
              => /\ Cardinality({i \in 1..Len(steps) : steps[i].step = CurrentStep(r)}) = 1
                 /\ steps[StepRecord].step = CurrentStep(r)
                 /\ steps[StepRecord].status = "SUCCEEDED"
                 /\ steps[StepRecord].attempt = Len(exec[r].outcomes))
    /\ [][\A r \in RunIds :
            RetriedThenSucceeded(r) /\ exec'[r] # exec[r]
              => /\ job'.status = STEP_TO_STATUS[CurrentStep(r)]
                 /\ IF exec[r].step < Len(PIPELINE_STEP_ORDER)
                      THEN exec'[r].pc = "createRunStep" /\ exec'[r].step = exec[r].step + 1
                      ELSE exec'[r].pc = "stored"]_vars

\* the handler of the stage in progress, a stage after VALIDATION, has returned a
\* retryable failure on every attempt and the retry loop has given up
RetriesExhausted(r) ==
    /\ exec[r].pc = "failJob"
    /\ exec[r].step > 1
    /\ exec[r].outcomes # <<>>
    /\ \A i \in 1..Len(exec[r].outcomes) : exec[r].outcomes[i] = "retryable"

\* C14: when the handler of a stage after VALIDATION has returned a retryable
\* failure on every attempt, it has been invoked exactly 3 times, the RunStep is
\* FAILED with attempt 3, the status update that follows sets the Job to FAILED,
\* and the execution goes on to mark the Run FAILED.
C14_RetryableExhaustedFails ==
    /\ [](\A r \in RunIds :
            RetriesExhausted(r)
              => /\ Len(exec[r].outcomes) = max_attempts
                 /\ steps[StepRecord].status = "FAILED"
                 /\ steps[StepRecord].attempt = max_attempts)
    /\ [][\A r \in RunIds :
            RetriesExhausted(r) /\ exec'[r] # exec[r]
              => job'.status = "FAILED" /\ exec'[r].pc = "failRun"]_vars
    /\ [][\A r \in RunIds :
            exec[r].pc = "failRun" /\ exec'[r] # exec[r]
              => runs'[r].status = "FAILED" /\ exec'[r].pc = "returned"]_vars

\* the handler of the stage in progress has thrown on every attempt and the catch
\* block has given up
ThrowsExhausted(r) ==
    /\ exec[r].pc = "catchFailJob"
    /\ exec[r].outcomes # <<>>
    /\ \A i \in 1..Len(exec[r].outcomes) : exec[r].outcomes[i] = "thrown"

\* C15: when a handler has thrown on every attempt, it has been invoked exactly
\* max_attempts times, the RunStep is FAILED with error code INTERNAL_ERROR, the
\* status update that follows sets the Job to FAILED, and the execution goes on to
\* mark the Run FAILED.
C15_ThrowsExhaustedFails ==
    /\ [](\A r \in RunIds :
            ThrowsExhausted(r)
              => /\ Len(exec[r].outcomes) = max_attempts
                 /\ exec[r].attempt = max_attempts
                 /\ steps[StepRecord].status = "FAILED"
                 /\ steps[StepRecord].error_code = "INTERNAL_ERROR")
    /\ [][\A r \in RunIds :
            ThrowsExhausted(r) /\ exec'[r] # exec[r]
              => job'.status = "FAILED" /\ exec'[r].pc = "catchFailRun"]_vars
    /\ [][\A r \in RunIds :
            exec[r].pc = "catchFailRun" /\ exec'[r] # exec[r]
              => runs'[r].status = "FAILED" /\ exec'[r].pc = "returned"]_vars

\* C16: canRerun(job) is true exactly when the Job's status is ANALYTICS_LOGGED,
\* FAILED_VALIDATION, FAILED, NEEDS_USER_INPUT or REQUIRES_MANUAL_REVIEW, and false
\* for the other ten statuses.
C16_CanRerunExactSet ==
    probe.fn = "canRerun" =>
      probe.result = (probe.args[1].status \in
                        {"ANALYTICS_LOGGED", "FAILED_VALIDATION", "FAILED",
                         "NEEDS_USER_INPUT", "REQUIRES_MANUAL_REVIEW"})

\* C16 witness: canRerun has answered false for a Job in BLOCKED_ENTITLEMENT
C16_Witness ==
    /\ probe.fn = "canRerun"
    /\ probe.args[1].status = "BLOCKED_ENTITLEMENT"
    /\ probe.result = FALSE

\* C17: once the Job's status is FAILED_VALIDATION or BLOCKED_ENTITLEMENT, no step
\* changes the status and no step adds a Run.
C17_NonResumable ==
    [][job.status \in {"FAILED_VALIDATION", "BLOCKED_ENTITLEMENT"}
         => job'.status = job.status /\ Len(runs') = Len(runs)]_vars

\* C18: every change of a Run's status is PENDING -> RUNNING or RUNNING -> one of
\* SUCCEEDED, FAILED, CANCELLED; a Run that is SUCCEEDED, FAILED or CANCELLED keeps
\* its status.
C18_RunStatusMonotone ==
    [][\A r \in CreatedRuns :
         runs'[r].status # runs[r].status
           => \/ runs[r].status = "PENDING" /\ runs'[r].status = "RUNNING"
              \/ /\ runs[r].status = "RUNNING"
                 /\ runs'[r].status \in {"SUCCEEDED", "FAILED", "CANCELLED"}]_vars

\* C18 witness: the first Run has ended FAILED and a later Run of the same Job has
\* gone through its whole execution and ended SUCCEEDED
C18_Witness ==
    /\ Len(runs) = 2
    /\ runs[1].status = "FAILED"
    /\ runs[2].status = "SUCCEEDED"
    /\ exec[2].pc = "returned"

\* C19: the Runs of the Job, in creation order, carry the run_numbers 1..n: each
\* new Run got the count of the Runs that existed plus 1.
C19_RunNumbersAreCountPlusOne ==
    \A i \in 1..Len(runs) : runs[i].run_number = i

\* C19 witness: a rerun has created a second Run, numbered 2
C19_Witness ==
    /\ Len(runs) = 2
    /\ runs[2].trigger = "REGENERATE"
    /\ runs[2].run_number = 2

\* the latest invocation of the handler of the stage in progress returned a
\* failure that carries an error code
HandlerReportedError(r) ==
    /\ exec[r].outcomes # <<>>
    /\ exec[r].outcomes[Len(exec[r].outcomes)] \in {"retryable", "non_retryable"}
    /\ exec[r].result.error_code # Undefined

\* C20: when the execution fails the Job after the handler reported code C with
\* message M and goes on to mark the Run FAILED, the stage's RunStep is FAILED with
\* error code C and detail M, the Job's status reason becomes M, and the message
\* the Run is then marked FAILED with is M.
C20_ErrorPropagated ==
    /\ [][\A r \in RunIds :
            /\ exec[r].pc \in {"failJob", "catchFailJob"}
            /\ exec'[r].pc \in {"failRun", "catchFailRun"}
            /\ HandlerReportedError(r)
            => /\ steps[StepRecord].status = "FAILED"
               /\ steps[StepRecord].error_code = exec[r].result.error_code
               /\ steps[StepRecord].error_detail = exec[r].result.error_message
               /\ job'.status_reason = exec[r].result.error_message
               /\ exec'[r].errorMessage = exec[r].result.error_message]_vars
    /\ [][\A r \in RunIds :
            exec[r].pc \in {"failRun", "catchFailRun"} /\ exec'[r] # exec[r]
              => /\ runs'[r].status = "FAILED"
                 /\ runs'[r].error_message = exec[r].errorMessage]_vars

\* C21: when an execution is about to mark its Run SUCCEEDED, the accumulated
\* token total is the sum of the tokens reported by the seven stages' successful
\* results (one token each, counted once whatever retries there were), and when
\* the Run has been marked that total is recorded on the Run's row.
C21_TotalsRecordedOnRun ==
    /\ [](\A r \in RunIds :
            exec[r].pc = "succeedRun"
              => exec[r].total_tokens = Len(PIPELINE_STEP_ORDER))
    /\ [][\A r \in RunIds :
            exec[r].pc = "succeedRun" /\ exec'[r].pc = "returned"
              => runs'[r].tokens_in + runs'[r].tokens_out = exec[r].total_tokens]_vars

\* the delays the specification lists: 1000, 2000, 4000, then doubling up to the
\* cap of 30000, which is reached at attempt 6
SpecDelay(attempt) ==
    CASE attempt = 1 -> 1000
      [] attempt = 2 -> 2000
      [] attempt = 3 -> 4000
      [] attempt = 4 -> 8000
      [] attempt = 5 -> 16000
      [] OTHER       -> 30000

\* C22: calculateRetryDelay(attempt) is 1000, 2000, 4000 for attempts 1, 2, 3, is
\* min(1000 * 2^(attempt-1), 30000) throughout, never decreases as attempt grows,
\* and is 30000 from attempt 6 on.
C22_RetryDelay ==
    probe.fn = "calculateRetryDelay" =>
      LET attempt == probe.args[1] IN
        /\ probe.result = SpecDelay(attempt)
        /\ attempt > 1 => probe.result >= SpecDelay(attempt - 1)
        /\ attempt >= 6 => probe.result = 30000

\* C22 witness: the delay of an attempt past the cap has been computed
C22_Witness ==
    /\ probe.fn = "calculateRetryDelay"
    /\ probe.args[1] = 7
    /\ probe.result = 30000

LastSucceededTarget(r) ==
    IF exec[r].step = 1 THEN "RECEIVED"
    ELSE STEP_TO_STATUS[PIPELINE_STEP_ORDER[exec[r].step - 1]]

\* C24: while a Run is RUNNING and its execution is between two stages or about
\* to call a stage's handler, the Job's status is the target status of the last
\* stage that succeeded in that Run (RECEIVED if none has).
C24_StatusFollowsStages ==
    \A r \in CreatedRuns :
      runs[r].status = "RUNNING" /\ exec[r].pc \in {"createRunStep", "stepHandler"}
        => job.status = LastSucceededTarget(r)

\* the moves of a RunStep's status that the specification allows
SpecStepMoves(from) ==
    CASE from = "STARTED"  -> {"RETRYING", "SUCCEEDED", "FAILED"}
      [] from = "RETRYING" -> {"RETRYING", "SUCCEEDED", "FAILED"}
      [] OTHER             -> {}

\* the records are one per stage, in stage order, all but the latest SUCCEEDED
RecordsFormPrefix ==
    /\ Len(steps) <= Len(PIPELINE_STEP_ORDER)
    /\ \A i \in 1..Len(steps) : steps[i].step = PIPELINE_STEP_ORDER[i]
    /\ \A i \in 1..(Len(steps) - 1) : steps[i].status = "SUCCEEDED"

\* C25: the RunStep records of a Run are one per stage and cover a prefix of the
\* stage order, every record but the latest is SUCCEEDED, and a record's status
\* only moves STARTED -> RETRYING (repeatedly) -> SUCCEEDED or FAILED, the last
\* two being final.
C25_RunStepRecords ==
    /\ []RecordsFormPrefix
    /\ [][Len(runs') = Len(runs) =>
            \A i \in 1..Len(steps) :
              /\ i <= Len(steps')
              /\ steps'[i].status # steps[i].status
                   => steps'[i].status \in SpecStepMoves(steps[i].status)]_vars

\* the pcs at which the next step of run() is a call of updateJobStatus
StatusRequestPcs ==
    {"updateJobStatus", "failJob", "catchFailJob", "stored", "analyticsLogged"}

\* the status that the execution of Run r is about to ask updateJobStatus for
RequestedStatus(r) ==
    CASE exec[r].pc = "updateJobStatus" -> STEP_TO_STATUS[CurrentStep(r)]
      [] exec[r].pc = "failJob"         ->
           FailureStatus(CurrentStep(r), ErrorCodeOf(exec[r].result))
      [] exec[r].pc = "catchFailJob"    -> "FAILED"
      [] exec[r].pc = "stored"          -> "STORED"
      [] exec[r].pc = "analyticsLogged" -> "ANALYTICS_LOGGED"

\* C26: whenever the orchestrator is about to ask updateJobStatus for a status (a
\* stage's target, a computed failure status, STORED, ANALYTICS_LOGGED), that
\* status is a permitted target of the Job's status at that moment, so the
\* request is never rejected.
C26_OrchestratorRequestsPermitted ==
    \A r \in CreatedRuns :
      exec[r].pc \in StatusRequestPcs
        => /\ canTransitionTo(job.status, RequestedStatus(r))
           /\ ~updateJobStatus(job, RequestedStatus(r), Undefined).threw

\* C27: at the step that marks a Run SUCCEEDED the Job's status is
\* ANALYTICS_LOGGED, and at the step that marks a Run FAILED the Job's status is
\* one of FAILED_VALIDATION, BLOCKED_ENTITLEMENT, REQUIRES_MANUAL_REVIEW,
\* NEEDS_USER_INPUT, FAILED.
C27_JobUpdatedBeforeRunMarked ==
    [][\A r \in CreatedRuns :
         /\ runs[r].status # "SUCCEEDED" /\ runs'[r].status = "SUCCEEDED"
              => job.status = "ANALYTICS_LOGGED"
         /\ runs[r].status # "FAILED" /\ runs'[r].status = "FAILED"
              => job.status \in {"FAILED_VALIDATION", "BLOCKED_ENTITLEMENT",
                                 "REQUIRES_MANUAL_REVIEW", "NEEDS_USER_INPUT",
                                 "FAILED"}]_vars

\* C28: once the execution has written a stage's final outcome (SUCCEEDED or
\* FAILED) on its RunStep, the attempt number stored there is the number of
\* times the stage's handler has been invoked in that Run.
C28_AttemptCountsInvocations ==
    \A r \in CreatedRuns :
      /\ exec[r].pc \in {"updateJobStatus", "failJob", "catchFailJob"}
      /\ Len(steps) > 0
      /\ steps[StepRecord].status \in {"SUCCEEDED", "FAILED"}
      => steps[StepRecord].attempt = exec[r].calls

\* no execution of run() has a step left to take: every one is unstarted, was
\* never triggered, or has ended
NoExecutionInProgress ==
    \A r \in RunIds : exec[r].pc \in {"idle", "unsent", "returned", "thrown"}

\* no request can change the Job any more: a rerun is refused and a PATCH to
\* DELIVERED is not a permitted transition
NoRouteApplies ==
    /\ ~canRerun(job)
    /\ ~canTransitionTo(job.status, "DELIVERED")

\* C29: a Job never gets stuck: there is no state in which the Job has no
\* RUNNING Run, cannot be rerun, is not BLOCKED_ENTITLEMENT, and neither an
\* execution nor a request can change it any more.
C29_NoStuckJob ==
    ~ /\ job # NoJob
      /\ \A r \in CreatedRuns : runs[r].status # "RUNNING"
      /\ job.status # "BLOCKED_ENTITLEMENT"
      /\ NoRouteApplies
      /\ NoExecutionInProgress

\* C30: while a Run of the Job is RUNNING, a step that is not a step of an
\* execution and creates no Run (a user PATCH) leaves the Job's status as it is:
\* the status is changed only by the Run's own pipeline execution.
C30_PatchCannotChangeJobInFlight ==
    [][/\ \E r \in CreatedRuns : runs[r].status = "RUNNING"
       /\ exec' = exec
       /\ runs' = runs
       => job'.status = job.status]_vars

====
